---- MODULE Spec2Model ----
(***************************************************************************)
(* CTAPred: the three command-line scripts (generate_CTA.py,               *)
(* predict_targets.py, update_chembl_np.py) as state machines, with the    *)
(* reference-table preparation of predict_targets.main and the Target      *)
(* Ranker as operators.                                                    *)
(*                                                                         *)
(* Real-valued options are kept in hundredths (Tc 0.80 is 80, a standard   *)
(* value of 0.01 nM is 1); similarity scores are kept in hundredths too    *)
(* and a mean is kept as the pair (sum, count).                            *)
(***************************************************************************)
EXTENDS Integers, Sequences, FiniteSets, TLC

VARIABLES
    prog,       \* which script (or library routine) this behaviour runs
    pc,         \* position of the running script
    argv,       \* the option values of the command line, defaults filled in
    args,       \* the argparse namespace as main mutates it
    fs0,        \* directories and files present when the process starts
    fs,         \* directories and files present now
    logFile,    \* records appended to the script's log file
    logOpen,    \* whether _logFile is open
    stdout,     \* records printed to sys.stdout
    calls,      \* SharedFunc routines invoked by the running process, in order
    exitStatus, \* process exit status, <<>> while running
    datIdx,     \* predict_targets: index in args.datNames of the next query list
    runs,       \* update_chembl_np: number of runs started
    initCount,  \* update_chembl_np: invocations of initialize_CTA_files
    removeCount,\* update_chembl_np: removals of CTA_meta.parquet between runs
    CTA,        \* predict_targets: the CTA table (select_CTA_reference_dataset, then lines 93-97)
    ChEMBL_similarity, \* rankTargets: the similarity table
    ranked      \* rankTargets: the ranked output written per k

vars == <<prog, pc, argv, args, fs0, fs, logFile, logOpen, stdout, calls,
          exitStatus, datIdx, runs, initCount, removeCount, CTA,
          ChEMBL_similarity, ranked>>

----------------------------------------------------------------------------
(* Bounds of the model *)

MaxLists == 3
MaxDatasets == 2
MaxRuns == 3
MaxRemovals == 2
MaxRows == 3
MaxK == 4
MaxCTARows == 2

----------------------------------------------------------------------------
(* Option values: argparse declarations *)

FingerprintChoices == {"avalon", "ecfp", "fcfp", "maccs"}
RadiusChoices == {2, 3}
MinBits == 8
MaxBits == 2048
MaccsBits == 116
\* hundredths
MinTc == 10
MaxTc == 100
MinSv == 1
MaxSv == 1000000

None == <<>>
Some(v) == <<v>>

\* int_range(lo, hi) / float_range(lo, hi): argparse type functions that accept
\* lo <= v <= hi and raise ArgumentTypeError otherwise
in_range(lo, hi, v) == lo <= v /\ v <= hi

\* Values a user may type
FingerprintInputs == FingerprintChoices \cup {"rdkit"}
NBitsInputs == {MinBits - 1, MinBits, 512, MaxBits, MaxBits + 1}
RadiusInputs == {1, 2, 3}
TcInputs == {MinTc - 1, MinTc, 80, MaxTc + 1}
SvInputs == {MinSv - 1, MinSv, MaxSv, MaxSv + 1}
\* --k: absent (the default, the bare integer 1), or a list of zero or more integers
IntDefault(v) == [isList |-> FALSE, vals |-> <<v>>]
IntList(s) == [isList |-> TRUE, vals |-> s]
TopKInputs == {IntDefault(1), IntList(<<>>), IntList(<<0>>), IntList(<<-1>>),
               IntList(<<1>>), IntList(<<3>>), IntList(<<1, 3>>)}

GenerateArgv == [fingerprint : FingerprintInputs, nBits : NBitsInputs,
                 radius : RadiusInputs, Tc : TcInputs, standard_value : SvInputs]
PredictArgv == [fingerprint : FingerprintInputs, nBits : NBitsInputs,
                radius : RadiusInputs, top_k : TopKInputs]

\* generate_CTA.parse_args: TRUE when argparse accepts the command line
generate_parse_args(a) ==
    /\ in_range(MinSv, MaxSv, a.standard_value)
    /\ in_range(MinTc, MaxTc, a.Tc)
    /\ a.fingerprint \in FingerprintChoices
    /\ in_range(MinBits, MaxBits, a.nBits)
    /\ a.radius \in RadiusChoices

\* As predict_parse_args, with --radius declared without its choices
predict_parse_args_AnyRadius(a) ==
    /\ a.fingerprint \in FingerprintChoices
    /\ in_range(MinBits, MaxBits, a.nBits)

\* predict_targets.parse_args: TRUE when argparse accepts the command line
\* (--k takes type=int with nargs='*': any integers, any number of them)
predict_parse_args(a) ==
    /\ a.fingerprint \in FingerprintChoices
    /\ in_range(MinBits, MaxBits, a.nBits)
    /\ a.radius \in RadiusChoices

\* The namespace parse_args returns
Namespace(a) == [a EXCEPT !.radius = Some(a.radius)]

\* As SetFingerprintFields, without the maccs length
SetFingerprintFields_KeepBits(a) ==
    IF a.fingerprint \in {"avalon", "maccs"} THEN [a EXCEPT !.radius = None] ELSE a

\* "Determine the value of the 'radius' and nBits field based on the fingerprint type"
SetFingerprintFields(a) ==
    IF a.fingerprint \in {"avalon", "maccs"}
    THEN IF a.fingerprint = "maccs"
         THEN [a EXCEPT !.radius = None, !.nBits = MaccsBits]
         ELSE [a EXCEPT !.radius = None]
    ELSE a

----------------------------------------------------------------------------
(* Files, log, calls *)

\* A path: a directory or file name, and for the per-query-list files the
\* query list N (QueryList<N>), the CTA dataset id and the k value (0: none)
Path(name, N, id, k) == [name |-> name, N |-> N, id |-> id, k |-> k]
OutputPath == Path("output", 0, 0, 0)
GenerateLog == Path("output/generate_CTA_log.txt", 0, 0, 0)
PredictLog == Path("output/predict_targets_log.txt", 0, 0, 0)
CTADatasetsDir == Path("output/CTA_datasets/", 0, 0, 0)
PotentialTargetsDir == Path("output/potential_targets/", 0, 0, 0)
\* os.path.join(args.inputPath, db_name + "_smiles.csv")
SmilesFile(db_name) == Path("input/QueryList<N>_smiles.csv", db_name, 0, 0)

Call(fn, arg) == [fn |-> fn, arg |-> arg]
Rec(ev, what) == [ev |-> ev, what |-> what]

\* Tee(sys.stdout, _logFile): a write goes to both streams
TeeLog(s, r) == Append(s, r)

NoArgs == [none |-> TRUE]

Idle ==
    /\ datIdx = 0 /\ runs = 0 /\ initCount = 0 /\ removeCount = 0
    /\ CTA = <<>> /\ ChEMBL_similarity = <<>> /\ ranked = <<>>

InitCommon ==
    /\ pc = "start"
    /\ logFile = <<>> /\ logOpen = FALSE /\ stdout = <<>> /\ calls = <<>>
    /\ exitStatus = None
    /\ fs = fs0

----------------------------------------------------------------------------
(* generate_CTA.main *)

InitGenerate ==
    /\ prog = "generate_CTA"
    /\ argv \in GenerateArgv
    /\ args = NoArgs
    /\ fs0 \in {{}, {OutputPath}}
    /\ InitCommon /\ Idle

\* line 62: args = parse_args(); argparse exits with status 2 on a rejected value
G_ParseArgs ==
    /\ prog = "generate_CTA" /\ pc = "start"
    /\ IF generate_parse_args(argv)
       THEN /\ args' = Namespace(argv)
            /\ pc' = "parsed"
            /\ UNCHANGED exitStatus
       ELSE /\ pc' = "exit"
            /\ exitStatus' = Some(2)
            /\ UNCHANGED args
    /\ UNCHANGED <<prog, argv, fs0, fs, logFile, logOpen, stdout, calls, datIdx,
                   runs, initCount, removeCount, CTA, ChEMBL_similarity, ranked>>

\* lines 64-79: output folder, log file, start record, CTA_datasets folder
G_Begin ==
    /\ prog = "generate_CTA" /\ pc = "parsed"
    /\ fs' = fs \cup {OutputPath, GenerateLog, CTADatasetsDir}
    /\ logOpen' = TRUE
    /\ logFile' = TeeLog(logFile, Rec("start", 0))
    /\ stdout' = TeeLog(stdout, Rec("start", 0))
    /\ pc' = "begun"
    /\ UNCHANGED <<prog, argv, args, fs0, calls, exitStatus, datIdx, runs,
                   initCount, removeCount, CTA, ChEMBL_similarity, ranked>>

\* lines 81-87: fingerprint fields, then createCTA(log, args, output_dir)
G_CreateCTA ==
    /\ prog = "generate_CTA" /\ pc = "begun"
    /\ args' = SetFingerprintFields(args)
    /\ calls' = Append(calls, Call("createCTA", args'))
    /\ pc' = "created"
    /\ UNCHANGED <<prog, argv, fs0, fs, logFile, logOpen, stdout, exitStatus,
                   datIdx, runs, initCount, removeCount, CTA, ChEMBL_similarity,
                   ranked>>

\* lines 88-89: finish record, close the log
G_Finish ==
    /\ prog = "generate_CTA" /\ pc = "created"
    /\ logFile' = TeeLog(logFile, Rec("finish", 0))
    /\ stdout' = TeeLog(stdout, Rec("finish", 0))
    /\ logOpen' = FALSE
    /\ pc' = "done"
    /\ exitStatus' = Some(0)
    /\ UNCHANGED <<prog, argv, args, fs0, fs, calls, datIdx, runs, initCount,
                   removeCount, CTA, ChEMBL_similarity, ranked>>

----------------------------------------------------------------------------
(* predict_targets.main *)

QueryLists == 1..MaxLists
CTA_ids == 1..MaxDatasets

\* args.datNames as assert_query_resource_files leaves it: the requested query lists
DatNameLists == {[i \in 1..n |-> i] : n \in 1..MaxLists}

WithDatNames(a, d) ==
    [fingerprint |-> a.fingerprint, nBits |-> a.nBits, radius |-> a.radius,
     top_k |-> a.top_k, datNames |-> d, CTA_id |-> 0]

InitPredict ==
    /\ prog = "predict_targets"
    /\ argv \in PredictArgv
    /\ args = NoArgs
    /\ \E od \in {{}, {OutputPath}}, present \in SUBSET QueryLists :
          fs0 = od \cup {SmilesFile(i) : i \in present}
    /\ InitCommon /\ Idle

\* line 65: args = parse_args(); argparse exits with status 2 on a rejected value
P_ParseArgs ==
    /\ prog = "predict_targets" /\ pc = "start"
    /\ IF predict_parse_args(argv)
       THEN /\ args' = Namespace(argv)
            /\ pc' = "parsed"
            /\ UNCHANGED exitStatus
       ELSE /\ pc' = "exit"
            /\ exitStatus' = Some(2)
            /\ UNCHANGED args
    /\ UNCHANGED <<prog, argv, fs0, fs, logFile, logOpen, stdout, calls, datIdx,
                   runs, initCount, removeCount, CTA, ChEMBL_similarity, ranked>>

\* lines 67-77: output folder, log file, start record
P_Begin ==
    /\ prog = "predict_targets" /\ pc = "parsed"
    /\ fs' = fs \cup {OutputPath, PredictLog}
    /\ logOpen' = TRUE
    /\ logFile' = TeeLog(logFile, Rec("start", 0))
    /\ stdout' = TeeLog(stdout, Rec("start", 0))
    /\ pc' = "begun"
    /\ UNCHANGED <<prog, argv, args, fs0, calls, exitStatus, datIdx, runs,
                   initCount, removeCount, CTA, ChEMBL_similarity, ranked>>

\* lines 79-82: assert_query_resource_files(log, args); on False the finish
\* record is written, the log closed and the process exits
P_AssertResources ==
    /\ prog = "predict_targets" /\ pc = "begun"
    /\ calls' = Append(calls, Call("assert_query_resource_files", args))
    /\ \/ /\ logFile' = TeeLog(logFile, Rec("finish", 0))
          /\ stdout' = TeeLog(stdout, Rec("finish", 0))
          /\ logOpen' = FALSE
          /\ pc' = "exit"
          /\ exitStatus' = Some(0)
          /\ UNCHANGED args
       \/ /\ \E d \in DatNameLists : args' = WithDatNames(args, d)
          /\ pc' = "resources"
          /\ UNCHANGED <<logFile, stdout, logOpen, exitStatus>>
    /\ UNCHANGED <<prog, argv, fs0, fs, datIdx, runs, initCount, removeCount,
                   CTA, ChEMBL_similarity, ranked>>

\* lines 84-99: fingerprint fields, the CTA reference dataset and its fingerprints
P_LoadCTA ==
    /\ prog = "predict_targets" /\ pc = "resources"
    /\ \E id \in CTA_ids :
          LET a == [SetFingerprintFields(args) EXCEPT !.CTA_id = id]
          IN /\ args' = a
             /\ calls' = calls \o <<Call("select_CTA_reference_dataset", a),
                                    Call("gen_fps", a)>>
    /\ logFile' = TeeLog(logFile, Rec("Start processing", 0))
    /\ stdout' = TeeLog(stdout, Rec("Start processing", 0))
    /\ datIdx' = 1
    /\ pc' = "loop"
    /\ UNCHANGED <<prog, argv, fs0, fs, logOpen, exitStatus, runs, initCount,
                   removeCount, CTA, ChEMBL_similarity, ranked>>

\* What Query_conductSS may return for a query list: no Similarity Pair, or some
\* (the pairs themselves are ranked by RankTargets below)
SimilarityOutcomes == {0, 1}

\* A SharedFunc call on one query list; rows: the length of the table it returns
Query(db_name, rows) == [db_name |-> db_name, rows |-> rows]

\* As HasMatches, with the emptiness test left out
HasMatches_Always(n) == TRUE

\* line 124: if len(ChEMBL_similarity) > 0
HasMatches(n) == n > 0

\* line 130: f"{db_name}_using_dataset_id_{CTA_id}_include_with_k_value_of" under output_dir
potential_targets_path(db_name, id) ==
    Path("output/potential_targets/<N>_using_dataset_id_<id>_include_with_k_value_of",
         db_name, id, 0)

\* The file rankTargets writes for one k: the path prefix followed by the k value
RankFile(prefix, k) == [prefix EXCEPT !.k = k]
RankFiles(prefix, top_k) ==
    {RankFile(prefix, top_k.vals[j]) : j \in 1..Len(top_k.vals)}

\* line 104: if not os.path.exists(smiles): ... break
MissingFileStep(db_name) ==
    /\ stdout' = stdout \o <<Rec("Data set", db_name),
                             Rec("Error, file not found", db_name)>>
    /\ logFile' = TeeLog(logFile, Rec("Data set", db_name))
    /\ pc' = "finish"
    /\ UNCHANGED <<fs, calls, datIdx>>

AfterQueryList == IF datIdx = Len(args.datNames) THEN "finish" ELSE "loop"

\* lines 101-134: one pass of "for db_name in args.datNames"
P_QueryList ==
    /\ prog = "predict_targets" /\ pc = "loop"
    /\ LET db_name == args.datNames[datIdx]
       IN IF SmilesFile(db_name) \notin fs
          THEN MissingFileStep(db_name)
          ELSE /\ logFile' = TeeLog(logFile, Rec("Data set", db_name))
               /\ stdout' = TeeLog(stdout, Rec("Data set", db_name))
               /\ datIdx' = datIdx + 1
               /\ pc' = AfterQueryList
               /\ \E n \in SimilarityOutcomes :
                     LET searched == calls \o
                             <<Call("preprocess_Query_SMILES", Query(db_name, 0)),
                               Call("gen_fps", Query(db_name, 0)),
                               Call("Query_conductSS", Query(db_name, n))>>
                         prefix == potential_targets_path(db_name, args.CTA_id)
                     IN IF HasMatches(n)
                        THEN /\ calls' = Append(searched, Call("rankTargets", prefix))
                             /\ fs' = fs \cup {PotentialTargetsDir}
                                         \cup RankFiles(prefix, args.top_k)
                        ELSE /\ calls' = searched
                             /\ UNCHANGED fs
    /\ UNCHANGED <<prog, argv, args, fs0, logOpen, exitStatus, runs, initCount,
                   removeCount, CTA, ChEMBL_similarity, ranked>>

\* lines 136-137: finish record, close the log
P_Finish ==
    /\ prog = "predict_targets" /\ pc = "finish"
    /\ logFile' = TeeLog(logFile, Rec("finish", 0))
    /\ stdout' = TeeLog(stdout, Rec("finish", 0))
    /\ logOpen' = FALSE
    /\ pc' = "done"
    /\ exitStatus' = Some(0)
    /\ UNCHANGED <<prog, argv, args, fs0, fs, calls, datIdx, runs, initCount,
                   removeCount, CTA, ChEMBL_similarity, ranked>>

----------------------------------------------------------------------------
(* update_chembl_np.py, run after run on one destination directory *)

DestinationPath == Path("Data", 0, 0, 0)
UpdateLog == Path("Data/update_chembl_np_log.txt", 0, 0, 0)
RefinedDir == Path("Data/refined_chembl", 0, 0, 0)
parquet_meta_path == Path("Data/refined_chembl/CTA_meta.parquet", 0, 0, 0)
parquet_data_path == Path("Data/refined_chembl/CTA_data.parquet", 0, 0, 0)

\* --ChEMBL_data / --NPs_data: absent (None), given empty, or given a path
DataPathInputs == {None, Some(""), Some("path")}
UpdateArgv == [ChEMBL : BOOLEAN, ChEMBL_dataPath : DataPathInputs,
               NPs : BOOLEAN, NPs_dataPath : DataPathInputs]

\* Python truth value of an optional string
Truthy(p) == p # None /\ p # Some("")

\* The attributes of the namespace update_chembl_np.parse_args returns
UpdateNamespaceAttrs ==
    {"ChEMBL_dataPath", "NPs_dataPath", "ChEMBL", "NPs", "destinationPath"}

\* The attributes line 107 reads to build the arguments of refine_NPs_data
RefineNPsArgAttrs == {"NPs_dataPath", "destinationPath", "verbose"}

\* As MetaMissing, with the existence test left out
MetaMissing_Always(files) == TRUE

\* line 92: if not os.path.exists(parquet_meta_path)
MetaMissing(files) == parquet_meta_path \notin files

InitUpdate ==
    /\ prog = "update_chembl_np"
    /\ argv \in UpdateArgv
    /\ args = NoArgs
    /\ fs0 \in {{}, {DestinationPath, UpdateLog, RefinedDir, parquet_meta_path,
                     parquet_data_path}}
    /\ InitCommon
    /\ datIdx = 0 /\ runs = 0 /\ initCount = 0 /\ removeCount = 0
    /\ CTA = <<>> /\ ChEMBL_similarity = <<>> /\ ranked = <<>>

\* lines 71-88: parse_args, destination folder, log file, start record, refined_chembl
U_Begin ==
    /\ prog = "update_chembl_np" /\ pc = "start"
    /\ args' = argv
    /\ runs' = runs + 1
    /\ fs' = fs \cup {DestinationPath, UpdateLog, RefinedDir}
    /\ logOpen' = TRUE
    /\ logFile' = TeeLog(logFile, Rec("Start time", runs'))
    /\ stdout' = TeeLog(stdout, Rec("Start time", runs'))
    /\ pc' = "begun"
    /\ UNCHANGED <<prog, argv, fs0, calls, exitStatus, datIdx, initCount,
                   removeCount, CTA, ChEMBL_similarity, ranked>>

\* lines 90-94: initialize_CTA_files creates both CTA_meta and CTA_data
U_Initialize ==
    /\ prog = "update_chembl_np" /\ pc = "begun"
    /\ IF MetaMissing(fs)
       THEN /\ calls' = Append(calls, Call("initialize_CTA_files", RefinedDir))
            /\ fs' = fs \cup {parquet_meta_path, parquet_data_path}
            /\ initCount' = initCount + 1
       ELSE UNCHANGED <<calls, fs, initCount>>
    /\ pc' = "ChEMBL"
    /\ UNCHANGED <<prog, argv, args, fs0, logFile, logOpen, stdout, exitStatus,
                   datIdx, runs, removeCount, CTA, ChEMBL_similarity, ranked>>

\* lines 96-102
U_ChEMBL ==
    /\ prog = "update_chembl_np" /\ pc = "ChEMBL"
    /\ IF args.ChEMBL
       THEN IF Truthy(args.ChEMBL_dataPath)
            THEN /\ calls' = Append(calls,
                        Call("set_ChEMBL_as_first_option_in_CTA_table", RefinedDir))
                 /\ UNCHANGED stdout
            ELSE /\ stdout' = Append(stdout, Rec("Please provide --ChEMBL_data", runs))
                 /\ UNCHANGED calls
       ELSE UNCHANGED <<calls, stdout>>
    /\ pc' = "NPs"
    /\ UNCHANGED <<prog, argv, args, fs0, fs, logFile, logOpen, exitStatus, datIdx,
                   runs, initCount, removeCount, CTA, ChEMBL_similarity, ranked>>

\* lines 104-109; reading an attribute the namespace lacks raises AttributeError
\* before refine_NPs_data is entered, and the interpreter exits with status 1
U_NPs ==
    /\ prog = "update_chembl_np" /\ pc = "NPs"
    /\ IF args.NPs
       THEN IF Truthy(args.NPs_dataPath)
            THEN IF RefineNPsArgAttrs \subseteq UpdateNamespaceAttrs
                 THEN /\ calls' = Append(calls, Call("refine_NPs_data", DestinationPath))
                      /\ pc' = "end"
                      /\ UNCHANGED <<stdout, exitStatus>>
                 ELSE /\ pc' = "crashed"
                      /\ exitStatus' = Some(1)
                      /\ UNCHANGED <<calls, stdout>>
            ELSE /\ stdout' = Append(stdout, Rec("Please provide --NPs_data", runs))
                 /\ pc' = "end"
                 /\ UNCHANGED <<calls, exitStatus>>
       ELSE /\ pc' = "end"
            /\ UNCHANGED <<calls, stdout, exitStatus>>
    /\ UNCHANGED <<prog, argv, args, fs0, fs, logFile, logOpen, datIdx, runs,
                   initCount, removeCount, CTA, ChEMBL_similarity, ranked>>

\* lines 111-112
U_End ==
    /\ prog = "update_chembl_np" /\ pc = "end"
    /\ logFile' = TeeLog(logFile, Rec("End time", runs))
    /\ stdout' = TeeLog(stdout, Rec("End time", runs))
    /\ pc' = "done"
    /\ exitStatus' = Some(0)
    /\ UNCHANGED <<prog, argv, args, fs0, fs, logOpen, calls, datIdx, runs,
                   initCount, removeCount, CTA, ChEMBL_similarity, ranked>>

RunOver == pc \in {"done", "crashed"}

\* The script is started again on the same destination, with any command line
U_NextRun ==
    /\ prog = "update_chembl_np" /\ RunOver /\ runs < MaxRuns
    /\ argv' \in UpdateArgv
    /\ args' = NoArgs
    /\ fs0' = fs
    /\ pc' = "start"
    /\ calls' = <<>> /\ stdout' = <<>>
    /\ exitStatus' = None
    /\ logOpen' = FALSE
    /\ UNCHANGED <<prog, fs, logFile, datIdx, runs, initCount, removeCount, CTA,
                   ChEMBL_similarity, ranked>>

\* Between two runs somebody removes CTA_meta.parquet
RemoveMeta ==
    /\ prog = "update_chembl_np" /\ RunOver /\ removeCount < MaxRemovals
    /\ parquet_meta_path \in fs
    /\ fs' = fs \ {parquet_meta_path}
    /\ removeCount' = removeCount + 1
    /\ UNCHANGED <<prog, pc, argv, args, fs0, logFile, logOpen, stdout, calls,
                   exitStatus, datIdx, runs, initCount, CTA, ChEMBL_similarity,
                   ranked>>

----------------------------------------------------------------------------
(* predict_targets.main lines 91-97: the reference table, for every dataset *)
(* select_CTA_reference_dataset may return                                  *)

NaN == "NaN"
Molregnos == {"M1", "M2"}
Structures == {"C", "CC", NaN}
Uniprots == {"P1", "P2"}
TargetIds == {"T1", "T2"}

CTARows == [molregno : Molregnos, clean_smiles : Structures,
            uniprot : Uniprots, target_chembl_id : TargetIds]
CTATables == UNION {[1..n -> CTARows] : n \in 0..MaxCTARows}

\* DataFrame.drop_duplicates(ignore_index=True): the first of equal rows is kept
RECURSIVE drop_duplicates(_)
drop_duplicates(t) ==
    IF t = <<>> THEN <<>>
    ELSE LET front == drop_duplicates(SubSeq(t, 1, Len(t) - 1))
             last == t[Len(t)]
         IN IF \E i \in 1..Len(front) : front[i] = last
            THEN front ELSE Append(front, last)

\* fp, where a row has it, is a bit vector and never missing
HasNaN(r) ==
    \E c \in {"molregno", "clean_smiles", "uniprot", "target_chembl_id"} : r[c] = NaN
IsComplete(r) == ~HasNaN(r)

\* DataFrame.dropna(): rows with a missing value are removed
dropna(t) == SelectSeq(t, IsComplete)

\* The Fingerprint Generator on one structure: the same structure gives the same
\* bit vector, different structures of the model give different ones
Fingerprint(smiles) == IF smiles = "C" THEN {1} ELSE {1, 2}

\* gen_fps(log, args, CTA[['molregno', 'clean_smiles']], 'Reference'): one
\* (molregno, fp) row per input row
RECURSIVE gen_fps(_)
gen_fps(t) ==
    IF t = <<>> THEN <<>>
    ELSE <<[molregno |-> t[1].molregno, fp |-> Fingerprint(t[1].clean_smiles)]>>
         \o gen_fps(Tail(t))

Joined(l, r) ==
    [molregno |-> l.molregno, clean_smiles |-> l.clean_smiles,
     uniprot |-> l.uniprot, target_chembl_id |-> l.target_chembl_id, fp |-> r.fp]

\* The rows of one left row joined with every right row of the same molregno
RECURSIVE MatchesOf(_, _)
MatchesOf(l, right) ==
    IF right = <<>> THEN <<>>
    ELSE (IF right[1].molregno = l.molregno THEN <<Joined(l, right[1])>> ELSE <<>>)
         \o MatchesOf(l, Tail(right))

\* pd.merge(left, right, on='molregno', how='inner')
RECURSIVE merge(_, _)
merge(left, right) ==
    IF left = <<>> THEN <<>>
    ELSE MatchesOf(left[1], right) \o merge(Tail(left), right)

\* lines 93-97
ReferenceTable(dataset) ==
    LET cta == dropna(drop_duplicates(dataset))
        CTA_fps == drop_duplicates(gen_fps(cta))
    IN dropna(merge(cta, CTA_fps))

InitReference ==
    /\ prog = "reference_table"
    /\ CTA \in CTATables
    /\ argv = NoArgs /\ args = NoArgs
    /\ fs0 = {}
    /\ InitCommon
    /\ datIdx = 0 /\ runs = 0 /\ initCount = 0 /\ removeCount = 0
    /\ ChEMBL_similarity = <<>> /\ ranked = <<>>

\* lines 91-97 on the dataset read
P_ReferenceTable ==
    /\ prog = "reference_table" /\ pc = "start"
    /\ CTA' = ReferenceTable(CTA)
    /\ calls' = Append(calls, Call("gen_fps", Len(CTA)))
    /\ pc' = "done"
    /\ UNCHANGED <<prog, argv, args, fs0, fs, logFile, logOpen, stdout,
                   exitStatus, datIdx, runs, initCount, removeCount,
                   ChEMBL_similarity, ranked>>

----------------------------------------------------------------------------
(* The Target Ranker: rankTargets(log, args, ChEMBL_similarity, path) *)

Queries == {1, 2}
Scores == {70, 80, 90}
SimRows == [np_id : Queries, target_chembl_id : TargetIds, similarity : Scores]
SimTables == UNION {[1..n -> SimRows] : n \in 1..MaxRows}
Ks == 1..MaxK
\* --k values: one k, or two
RankTopKs == {<<k>> : k \in Ks} \cup {<<1, k>> : k \in Ks \ {1}}

Min(a, b) == IF a <= b THEN a ELSE b

\* The indices of the rows of query q, in the table's order
RECURSIVE RowsOf(_, _, _)
RowsOf(t, q, i) ==
    IF i > Len(t) THEN <<>>
    ELSE (IF t[i].np_id = q THEN <<i>> ELSE <<>>) \o RowsOf(t, q, i + 1)

\* Insert index i into s (sorted by descending similarity) after every index of
\* an equal or higher similarity: a stable sort
RECURSIVE InsertBySimilarity(_, _, _)
InsertBySimilarity(t, s, i) ==
    IF s = <<>> THEN <<i>>
    ELSE IF t[Head(s)].similarity >= t[i].similarity
         THEN <<Head(s)>> \o InsertBySimilarity(t, Tail(s), i)
         ELSE <<i>> \o s

RECURSIVE SortBySimilarity(_, _)
SortBySimilarity(t, idx) ==
    IF idx = <<>> THEN <<>>
    ELSE InsertBySimilarity(t, SortBySimilarity(t, SubSeq(idx, 1, Len(idx) - 1)),
                            idx[Len(idx)])

\* As TopK, taking the first k rows of the query as inserted
TopK_Unsorted(t, q, k) ==
    LET rows == RowsOf(t, q, 1)
    IN SubSeq(rows, 1, Min(k, Len(rows)))

\* The top-k neighbours of query q: indices of the k rows of highest similarity
TopK(t, q, k) ==
    LET sorted == SortBySimilarity(t, RowsOf(t, q, 1))
    IN SubSeq(sorted, 1, Min(k, Len(sorted)))

RECURSIVE SumSimilarity(_, _)
SumSimilarity(t, idx) ==
    IF idx = <<>> THEN 0 ELSE t[Head(idx)].similarity + SumSimilarity(t, Tail(idx))

\* The neighbours among idx with target tg
RECURSIVE WithTarget(_, _, _)
WithTarget(t, idx, tg) ==
    IF idx = <<>> THEN <<>>
    ELSE (IF t[Head(idx)].target_chembl_id = tg THEN <<Head(idx)>> ELSE <<>>)
         \o WithTarget(t, Tail(idx), tg)

\* One row per target among the neighbours idx, in order of first appearance;
\* the mean similarity is the pair (total, n)
RECURSIVE GroupByTarget(_, _, _)
GroupByTarget(t, idx, all) ==
    IF idx = <<>> THEN <<>>
    ELSE LET tg == t[Head(idx)].target_chembl_id
             grp == WithTarget(t, all, tg)
             rest == GroupByTarget(t, Tail(idx), all)
         IN IF Head(grp) = Head(idx)
            THEN <<[target_chembl_id |-> tg, total |-> SumSimilarity(t, grp),
                    n |-> Len(grp)]>> \o rest
            ELSE rest

\* mean(a) >= mean(b)
MeanGE(a, b) == a.total * b.n >= b.total * a.n

RECURSIVE InsertByMean(_, _)
InsertByMean(s, r) ==
    IF s = <<>> THEN <<r>>
    ELSE IF MeanGE(Head(s), r)
         THEN <<Head(s)>> \o InsertByMean(Tail(s), r)
         ELSE <<r>> \o s

RECURSIVE SortByMean(_)
SortByMean(g) ==
    IF g = <<>> THEN <<>>
    ELSE InsertByMean(SortByMean(SubSeq(g, 1, Len(g) - 1)), g[Len(g)])

\* The ranked targets of query q for one k
RankQuery(t, q, k) ==
    LET top == TopK(t, q, k)
    IN SortByMean(GroupByTarget(t, top, top))

\* The ranked output for one k: every query of the table with its ranked targets
RankTargets(t, k) ==
    [q \in {t[i].np_id : i \in 1..Len(t)} |-> RankQuery(t, q, k)]

InitRank ==
    /\ prog = "rankTargets"
    /\ ChEMBL_similarity \in SimTables
    /\ \E ks \in RankTopKs : args = [top_k |-> IntList(ks)]
    /\ argv = NoArgs
    /\ fs0 = {}
    /\ InitCommon
    /\ datIdx = 0 /\ runs = 0 /\ initCount = 0 /\ removeCount = 0
    /\ CTA = <<>> /\ ranked = <<>>

\* rankTargets writes one ranked output per requested k
R_RankTargets ==
    /\ prog = "rankTargets" /\ pc = "start"
    /\ LET k == args.top_k.vals[Len(ranked) + 1]
       IN ranked' = Append(ranked, [k |-> k, rows |-> RankTargets(ChEMBL_similarity, k)])
    /\ pc' = IF Len(ranked') = Len(args.top_k.vals) THEN "done" ELSE "start"
    /\ UNCHANGED <<prog, argv, args, fs0, fs, logFile, logOpen, stdout, calls,
                   exitStatus, datIdx, runs, initCount, removeCount, CTA,
                   ChEMBL_similarity>>

----------------------------------------------------------------------------
(* Properties *)

IsPredict == prog = "predict_targets"
IsGenerate == prog = "generate_CTA"
IsUpdate == prog = "update_chembl_np"

Called(fn) == {i \in 1..Len(calls) : calls[i].fn = fn}
Searched(N) == \E i \in Called("Query_conductSS") : calls[i].arg.db_name = N
RankCalls(N) == {i \in Called("rankTargets") : calls[i].arg.N = N}
Printed(stream, ev, what) == \E i \in 1..Len(stream) : stream[i] = Rec(ev, what)

\* C1: in a finished prediction run every requested query list whose
\* <name>_smiles.csv exists has been read and searched, whatever other
\* requested lists are missing, also a list requested before it.
C1_MissingListSkippedAlone ==
    (IsPredict /\ pc = "done") =>
        \A i \in 1..Len(args.datNames) :
            SmilesFile(args.datNames[i]) \in fs => Searched(args.datNames[i])

\* The parameters handed downstream: the namespace given to createCTA and to
\* select_CTA_reference_dataset, and the namespace every later step reads
HandedDown ==
    {calls[i].arg : i \in Called("createCTA") \cup Called("select_CTA_reference_dataset")}
    \cup (IF IsPredict /\ pc \in {"loop", "finish", "done"} THEN {args} ELSE {})

\* C2: maccs is handed down with nBits = 116 and no radius whatever the user
\* gave; avalon with no radius and the user's nBits; ecfp and fcfp with the
\* user's nBits and radius, the radius in {2, 3}.
C2_FingerprintFields ==
    (IsGenerate \/ IsPredict) =>
        \A a \in HandedDown :
            /\ a.fingerprint = argv.fingerprint
            /\ a.fingerprint = "maccs" => (a.nBits = 116 /\ a.radius = <<>>)
            /\ a.fingerprint = "avalon" => (a.nBits = argv.nBits /\ a.radius = <<>>)
            /\ a.fingerprint \in {"ecfp", "fcfp"} =>
                  (a.nBits = argv.nBits /\ a.radius = <<argv.radius>>
                     /\ argv.radius \in {2, 3})

\* maccs requested with nBits = 512: the finished prediction run used 116, no radius
C2_Witness ==
    /\ IsPredict /\ pc = "done"
    /\ argv.fingerprint = "maccs" /\ argv.nBits = 512
    /\ args.nBits = 116 /\ args.radius = <<>>
    /\ Called("rankTargets") # {}

\* C3: a run of the update script invokes initialize_CTA_files only if
\* CTA_meta.parquet was absent when the run started, and over any sequence of
\* runs there is at most one initialisation more than removals of the file.
C3_InitialisedOnce ==
    IsUpdate =>
        /\ Called("initialize_CTA_files") # {} => parquet_meta_path \notin fs0
        /\ Cardinality(Called("initialize_CTA_files")) <= 1
        /\ initCount <= 1 + removeCount

\* A second run has ended on the files the first run initialised, without
\* initialising again
C3_Witness ==
    /\ IsUpdate /\ pc = "done" /\ runs = 2
    /\ initCount = 1 /\ removeCount = 0
    /\ parquet_meta_path \in fs0
    /\ Called("initialize_CTA_files") = {}

\* An option value outside its documented range
OutOfRange ==
    \/ argv.nBits < 8 \/ argv.nBits > 2048
    \/ argv.radius \notin {2, 3}
    \/ argv.fingerprint \notin {"avalon", "ecfp", "fcfp", "maccs"}
    \/ /\ IsGenerate
       /\ \/ argv.Tc < 10 \/ argv.Tc > 100
          \/ argv.standard_value < 1 \/ argv.standard_value > 1000000

\* C4: an out-of-range option value ends generate_CTA and predict_targets in
\* parse_args with a non-zero exit status, before any directory is created, the
\* log is opened, or createCTA, fingerprinting, search or ranking is invoked.
C4_RejectedAtBoundary ==
    ((IsGenerate \/ IsPredict) /\ OutOfRange /\ pc # "start") =>
        /\ pc = "exit"
        /\ exitStatus # <<>> /\ exitStatus # <<0>>
        /\ fs = fs0
        /\ logFile = <<>> /\ ~logOpen /\ stdout = <<>>
        /\ calls = <<>>

\* predict_targets --radius 1 has exited with status 2
C4_Witness ==
    /\ IsPredict /\ argv.radius = 1 /\ argv.nBits = 512
    /\ argv.fingerprint = "ecfp"
    /\ pc = "exit" /\ exitStatus = <<2>>

\* C5: the top_k that reaches rankTargets is a list of one or more positive
\* integers.
C5_TopKPositiveList ==
    (IsPredict /\ Called("rankTargets") # {}) =>
        /\ args.top_k.isList
        /\ Len(args.top_k.vals) >= 1
        /\ \A j \in 1..Len(args.top_k.vals) : args.top_k.vals[j] > 0

IsRank == prog = "rankTargets"

QueriesOf(t) == {t[i].np_id : i \in 1..Len(t)}
NeighboursOf(t, q) == {i \in 1..Len(t) : t[i].np_id = q}

\* Row i comes before row j: a higher similarity, or the same and inserted earlier
Before(t, i, j) ==
    \/ t[i].similarity > t[j].similarity
    \/ t[i].similarity = t[j].similarity /\ i < j

\* The rows of q that fewer than k rows of q come before
Selected(t, q, k) ==
    {i \in NeighboursOf(t, q) :
        Cardinality({j \in NeighboursOf(t, q) : Before(t, j, i)}) < k}

RECURSIVE TotalOf(_, _)
TotalOf(t, S) ==
    IF S = {} THEN 0
    ELSE LET i == CHOOSE x \in S : TRUE
         IN t[i].similarity + TotalOf(t, S \ {i})

RECURSIVE CountOf(_)
CountOf(out) == IF out = <<>> THEN 0 ELSE Head(out).n + CountOf(Tail(out))

\* What C6 says of the ranked targets `out` of query q for k
RankedAsClaimed(t, q, k, out) ==
    LET sel == Selected(t, q, k)
    IN /\ CountOf(out) = Min(k, Cardinality(NeighboursOf(t, q)))
       /\ {out[r].target_chembl_id : r \in 1..Len(out)}
             = {t[i].target_chembl_id : i \in sel}
       /\ \A r1, r2 \in 1..Len(out) :
             out[r1].target_chembl_id = out[r2].target_chembl_id => r1 = r2
       /\ \A r \in 1..Len(out) :
             LET grp == {i \in sel : t[i].target_chembl_id = out[r].target_chembl_id}
             IN out[r].n = Cardinality(grp) /\ out[r].total = TotalOf(t, grp)
       /\ \A r \in 1..(Len(out) - 1) :
             out[r].total * out[r + 1].n >= out[r + 1].total * out[r].n

\* Targets {T1, T2, T1} with similarities {0.9, 0.8, 0.7} to one query
ScenarioTable ==
    <<[np_id |-> 1, target_chembl_id |-> "T1", similarity |-> 90],
      [np_id |-> 1, target_chembl_id |-> "T2", similarity |-> 80],
      [np_id |-> 1, target_chembl_id |-> "T1", similarity |-> 70]>>
ScenarioRanking ==
    <<[target_chembl_id |-> "T1", total |-> 90, n |-> 1],
      [target_chembl_id |-> "T2", total |-> 80, n |-> 1]>>

\* C6: for every query of the table and every requested k the ranker selects
\* the min(k, rows of the query) rows of highest similarity, ties by insertion
\* order, and emits one row per target among them, scored by the mean
\* similarity of the selected rows of that target only, in descending order of
\* mean; {T1, T2, T1} with {0.9, 0.8, 0.7} and k = 2 gives [T1 0.9, T2 0.8].
C6_TopKMeanRanking ==
    IsRank =>
        \A j \in 1..Len(ranked) :
            /\ ranked[j].k = args.top_k.vals[j]
            /\ DOMAIN ranked[j].rows = QueriesOf(ChEMBL_similarity)
            /\ \A q \in QueriesOf(ChEMBL_similarity) :
                  RankedAsClaimed(ChEMBL_similarity, q, ranked[j].k, ranked[j].rows[q])
            /\ (ChEMBL_similarity = ScenarioTable /\ ranked[j].k = 2) =>
                  ranked[j].rows[1] = ScenarioRanking

\* The scenario has been ranked for k = 2
C6_Witness ==
    /\ IsRank /\ pc = "done"
    /\ ChEMBL_similarity = ScenarioTable
    /\ Len(ranked) = 1 /\ ranked[1].k = 2
    /\ ranked[1].rows[1] = ScenarioRanking

\* C7: the reference table handed to the similarity search has no two rows
\* with the same (molregno, target_chembl_id).
C7_UniquePairs ==
    (prog = "reference_table" /\ pc = "done") =>
        \A i, j \in 1..Len(CTA) :
            (CTA[i].molregno = CTA[j].molregno
               /\ CTA[i].target_chembl_id = CTA[j].target_chembl_id) => i = j

\* The query lists the finished run found missing
FoundMissing ==
    {N \in QueryLists : Printed(stdout, "Error, file not found", N)}

\* C8: when a query file is missing, the run log records which file was
\* missing, every output of the query lists processed before is still there,
\* the finish record is written and the log is closed.
C8_MissingFileLogged ==
    (IsPredict /\ pc = "done" /\ FoundMissing # {}) =>
        /\ \A N \in FoundMissing : Printed(logFile, "Error, file not found", N)
        /\ \A i \in Called("rankTargets") :
              RankFiles(calls[i].arg, args.top_k) \subseteq fs
        /\ Printed(logFile, "finish", 0)
        /\ ~logOpen

\* The position in args.datNames of query list N
PositionOf(N) == CHOOSE i \in 1..Len(args.datNames) : args.datNames[i] = N

\* C9: a query list whose similarity table is empty gets no rankTargets call
\* and no output file, the potential_targets directory is only created for a
\* list with matches, the run goes on to the next list without failing; a
\* list with a non-empty table gets exactly one rankTargets call, whose path
\* prefix holds the list's name and the CTA dataset id.
C9_EmptyResultSkipped ==
    IsPredict =>
        /\ \A i \in Called("Query_conductSS") :
              LET N == calls[i].arg.db_name
              IN IF calls[i].arg.rows = 0
                 THEN /\ RankCalls(N) = {}
                      /\ \A f \in fs : f.N = N => f = SmilesFile(N)
                      /\ pc \in {"loop", "finish", "done"}
                      /\ exitStatus \in {<<>>, <<0>>}
                      /\ datIdx > PositionOf(N)
                      /\ (pc = "done" /\ PositionOf(N) < Len(args.datNames)
                            /\ SmilesFile(args.datNames[PositionOf(N) + 1]) \in fs)
                         => Searched(args.datNames[PositionOf(N) + 1])
                 ELSE /\ Cardinality(RankCalls(N)) = 1
                      /\ \A c \in RankCalls(N) :
                            calls[c].arg = potential_targets_path(N, args.CTA_id)
        /\ (\A i \in Called("Query_conductSS") : calls[i].arg.rows = 0)
              => PotentialTargetsDir \notin fs

\* A finished run: the first list had no match, the second was ranked
C9_Witness ==
    /\ IsPredict /\ pc = "done" /\ Len(args.datNames) >= 2
    /\ \E i \in Called("Query_conductSS") :
          calls[i].arg.db_name = 1 /\ calls[i].arg.rows = 0
    /\ Cardinality(RankCalls(2)) = 1 /\ RankCalls(1) = {}
    /\ PotentialTargetsDir \in fs

\* C10: every run of the update script reaches its 'End time' record; a flag
\* given with its path invokes that dataset's update step, a flag given
\* without its path invokes none and prints the 'Please provide' message.
C10_UpdateRunEnds ==
    (IsUpdate /\ RunOver) =>
        /\ Printed(logFile, "End time", runs)
        /\ (args.ChEMBL /\ Truthy(args.ChEMBL_dataPath))
              => Called("set_ChEMBL_as_first_option_in_CTA_table") # {}
        /\ (args.NPs /\ Truthy(args.NPs_dataPath))
              => Called("refine_NPs_data") # {}
        /\ (args.ChEMBL /\ ~Truthy(args.ChEMBL_dataPath))
              => /\ Called("set_ChEMBL_as_first_option_in_CTA_table") = {}
                 /\ Printed(stdout, "Please provide --ChEMBL_data", runs)
        /\ (args.NPs /\ ~Truthy(args.NPs_dataPath))
              => /\ Called("refine_NPs_data") = {}
                 /\ Printed(stdout, "Please provide --NPs_data", runs)

----------------------------------------------------------------------------
Init == InitGenerate \/ InitPredict \/ InitUpdate \/ InitReference \/ InitRank

Next ==
    \/ G_ParseArgs \/ G_Begin \/ G_CreateCTA \/ G_Finish
    \/ P_ParseArgs \/ P_Begin \/ P_AssertResources \/ P_LoadCTA \/ P_QueryList
    \/ P_Finish
    \/ P_ReferenceTable
    \/ R_RankTargets
    \/ U_Begin \/ U_Initialize \/ U_ChEMBL \/ U_NPs \/ U_End \/ U_NextRun
    \/ RemoveMeta

Spec == Init /\ [][Next]_vars
====
